---- MODULE Spec2Model ----
(***************************************************************************)
(* py3status modules pew (notification watcher) and updates (update        *)
(* aggregator), modelled from src/py3status/modules/pew.py and             *)
(* src/py3status/modules/updates.py.                                       *)
(*                                                                         *)
(* Text is a sequence of one-character strings.  Python's None is the      *)
(* one-element sequence None, which no text equals.                        *)
(***************************************************************************)
EXTENDS Integers, Sequences, FiniteSets, TLC

VARIABLES
    \* ---- pew.py: the Py3status instance and its two threads ----
    body, summary, urgent,  \* self.body, self.summary, self.urgent
    started,                \* post_config_hook has run and thread t is started
    wpc,                    \* position of the watcher thread (source line)
    queue,                  \* Notify messages received on the bus, not yet dispatched
    cur,                    \* the message the running _show_notification was called with
    slept,                  \* time units of sleep(self.timeout) elapsed
    nstarted, nreturned,    \* _show_notification invocations begun / returned
    update_calls,           \* the py3.update() requests made so far
    rpc,                    \* position of the host thread inside pew()
    rd,                     \* pew()'s already-evaluated dict entries
    result,                 \* what the last pew() returned
    returned                \* some pew() call has returned

pewVars == <<body, summary, urgent, started, wpc, queue, cur, slept,
             nstarted, nreturned, update_calls, rpc, rd, result, returned>>

VARIABLES
    \* ---- updates.py: the Py3status instance and the system it runs on ----
    installed,              \* binaries py3.check_commands finds
    format,                 \* self.format
    hooked,                 \* post_config_hook has run
    backends,               \* self.backends
    thresholds_init,        \* self.thresholds_init
    npolls,                 \* calls of updates() so far
    outcomes,               \* last poll: what each backend's command did
    failed,                 \* last poll: CommandError left updates()
    update_data,            \* last poll: the update_data dict
    colors,                 \* last poll: the threshold_get_color calls
    prev_positive           \* the poll before returned some count above zero

updVars == <<installed, format, hooked, backends, thresholds_init, npolls,
             outcomes, failed, update_data, colors, prev_positive>>

VARIABLES
    \* ---- updates.py: one backend queried on its own ----
    outcome,                \* what the backend's command does
    report                  \* what get_updates() did with it

parseVars == <<outcome, report>>

vars == <<pewVars, updVars, parseVars>>

----------------------------------------------------------------------------
(* Bounds *)
MaxNotifs == 2      \* Notify messages received in one run

(* Program constants *)
timeout == 10

None == <<"<None>">>
NL == "\n"
SP == " "

(* Texts a notification's summary or body is drawn from *)
Texts == { <<>>, <<"a", NL, "b">> }

(* notification.get_args_list(): app_name, replaces_id, app_icon, summary, *)
(* body, actions, hints, expire_timeout; every argument already as text.   *)
ArgsList(s, b) == << <<"p">>, <<"0">>, <<>>, s, b, <<>>, <<>>, <<"1">> >>

Messages == { ArgsList(s, b) : s \in Texts, b \in Texts }

----------------------------------------------------------------------------
(* str.split(sep) for a one-character separator *)
RECURSIVE split(_, _)
split(s, sep) ==
    IF \A i \in 1..Len(s) : s[i] # sep
    THEN << s >>
    ELSE LET i == CHOOSE k \in 1..Len(s) :
                      s[k] = sep /\ \A j \in 1..(k-1) : s[j] # sep
         IN  << SubSeq(s, 1, i-1) >> \o split(SubSeq(s, i+1, Len(s)), sep)

(* sep.join(parts) *)
RECURSIVE join(_, _)
join(sep, parts) ==
    IF Len(parts) = 0 THEN <<>>
    ELSE IF Len(parts) = 1 THEN parts[1]
    ELSE parts[1] \o <<sep>> \o join(sep, Tail(parts))

(* format(arg): the text of a string argument *)
builtin_format(arg) == arg

(* [format(arg) for arg in notification.get_args_list()] *)
FormatArgs(msg) == [i \in 1..Len(msg) |-> builtin_format(msg[i])]

OneLineRaw(notification, k) == notification[k+1]

(* " ".join(notification[k].split("\n")), k counted from 0 *)
OneLine(notification, k) == join(SP, split(notification[k+1], NL))

----------------------------------------------------------------------------
(* updates.py *)

(* Bounds *)
MaxInstalled == 2   \* package-manager binaries installed on the system
MaxPolls == 2       \* calls of updates() in one run
MaxLen == 3         \* length of the command outputs the parsers are tried on

CR == "\r"
Chars == {"x", NL, CR}

(* every text of at most n characters *)
Strings(n) == UNION { [1..k -> Chars] : k \in 0..n }

Range(seq) == { seq[i] : i \in 1..Len(seq) }

(* "No packages to upgrade." (line 99) *)
Phrase == << "N","o"," ","p","a","c","k","a","g","e","s"," ","t","o"," ",
             "u","p","g","r","a","d","e","." >>

(* a zypper list-updates table: two blank lines, four header lines, two   *)
(* data lines                                                             *)
ZypperListing ==
    << NL, NL, "x", NL, "x", NL, "x", NL, "x", NL, "x", NL, "x", NL >>

(* lines 133-143 *)
managers == <<
    [name |-> "pacman", command |-> <<"checkupdates">>],
    [name |-> "cower",  command |-> <<"cower", "-u">>],
    [name |-> "yay",    command |-> <<"yay", "--query", "--upgrades", "--aur">>],
    [name |-> "apk",    command |-> <<"apk", "version", "-l", "\"<\"">>],
    [name |-> "apt",    command |-> <<"apt", "list", "--upgradeable">>],
    [name |-> "eopkg",  command |-> <<"eopkg", "list-upgrades">>],
    [name |-> "pkg",    command |-> <<"pkg", "upgrade", "--dry-run", "--quiet">>],
    [name |-> "xbps",   command |-> <<"xbps-install", "--update", "--dry-run">>],
    [name |-> "zypper", command |-> <<"zypper", "list-updates">>] >>

Binaries == { managers[i].command[1] : i \in 1..Len(managers) }

(* the module-level names of updates.py: what globals() holds *)
Globals == {"Update", "Apt", "Apk", "Cower", "Eopkg", "Zypper", "Py3status"}

(* str.capitalize() on the manager names *)
capitalize(name) ==
    CASE name = "pacman" -> "Pacman"
      [] name = "cower"  -> "Cower"
      [] name = "yay"    -> "Yay"
      [] name = "apk"    -> "Apk"
      [] name = "apt"    -> "Apt"
      [] name = "eopkg"  -> "Eopkg"
      [] name = "pkg"    -> "Pkg"
      [] name = "xbps"   -> "Xbps"
      [] name = "zypper" -> "Zypper"

(* A template, as far as the module looks into it: whether it is unset,   *)
(* and what py3.get_placeholders_list and py3.get_color_names_list find.  *)
NoFormat == [is_none |-> TRUE, placeholders |-> {}, color_names |-> <<>>]

(* lines 148-151: one "{binary}" placeholder and one "color=binary" per   *)
(* binary found                                                           *)
AutoFormat(binaries) ==
    [is_none |-> FALSE, placeholders |-> Range(binaries),
     color_names |-> binaries]

(* the format settings tried: unset, the docstring's example, and two     *)
(* templates naming pkg, an unknown placeholder and colours without a     *)
(* placeholder                                                            *)
Formats == {
    NoFormat,
    [is_none |-> FALSE, placeholders |-> {"pacman", "cower"},
     color_names |-> <<"pacman", "cower">>],
    [is_none |-> FALSE, placeholders |-> {"apt", "pkg"},
     color_names |-> <<"apt">>],
    [is_none |-> FALSE, placeholders |-> {"eopkg", "zypper", "dnf"},
     color_names |-> <<"dnf", "zypper", "xbps">>] }

check_commands(binary) == binary \in installed

get_placeholders_list(fmt) == fmt.placeholders

get_color_names_list(fmt) == fmt.color_names

(* lines 145-147: the binaries found when no format is configured *)
ProbeBinaries ==
    LET found(m) == check_commands(m.command[1])
        ms == SelectSeq(managers, found)
    IN  [i \in 1..Len(ms) |-> ms[i].name]

IsActiveUnprobed(m, placeholders, binaries) == m.name \in placeholders

(* lines 156-157 *)
IsActive(m, placeholders, binaries) ==
    /\ m.name \in placeholders
    /\ (m.name \in Range(binaries) \/ check_commands(m.command[1]))

(* lines 158-162: the class found under the capitalized name, else Update *)
Backend(m) ==
    [cls |-> IF capitalize(m.name) \in Globals THEN capitalize(m.name)
             ELSE "Update",
     name |-> m.name, command |-> m.command]

(* lines 153-162 *)
BuildBackends(placeholders, binaries) ==
    LET active(m) == IsActive(m, placeholders, binaries)
        ms == SelectSeq(managers, active)
    IN  [i \in 1..Len(ms) |-> Backend(ms[i])]

(* str.splitlines() on texts over Chars: "\n", "\r" and "\r\n" end a line *)
RECURSIVE splitlines(_)
splitlines(s) ==
    IF s = <<>> THEN <<>>
    ELSE IF \A i \in 1..Len(s) : s[i] \notin {NL, CR}
    THEN << s >>
    ELSE LET i == CHOOSE k \in 1..Len(s) :
                      s[k] \in {NL, CR} /\ \A j \in 1..(k-1) : s[j] \notin {NL, CR}
             w == IF s[i] = CR /\ i < Len(s) /\ s[i+1] = NL THEN 2 ELSE 1
         IN  << SubSeq(s, 1, i-1) >> \o splitlines(SubSeq(s, i+w, Len(s)))

(* sub in s, for texts *)
Contains(sub, s) ==
    \E i \in 0..(Len(s) - Len(sub)) : SubSeq(s, i+1, i+Len(sub)) = sub

(* seq[n:] *)
SliceFrom(seq, n) == IF Len(seq) <= n THEN <<>> ELSE SubSeq(seq, n+1, Len(seq))

(* What a child process does: its exit status and what it printed.        *)
(* py3.command_output returns the output on status 0 and raises           *)
(* CommandError, carrying the output, otherwise.                          *)
UpdateOutput(oc) ==
    IF oc.ok THEN [failed |-> FALSE, text |-> oc.output]
    ELSE [failed |-> FALSE, text |-> <<>>]

CowerOutputAsUpdate(oc) == UpdateOutput(oc)

CowerOutput(oc) ==
    IF oc.ok THEN [failed |-> FALSE, text |-> <<>>]
    ELSE [failed |-> FALSE, text |-> oc.output]

EopkgOutput(oc) ==
    IF ~oc.ok THEN [failed |-> TRUE, text |-> <<>>]
    ELSE IF Contains(Phrase, oc.output) THEN [failed |-> FALSE, text |-> <<>>]
    ELSE [failed |-> FALSE, text |-> oc.output]

(* get_command_output of the backend's class *)
get_command_output(b, oc) ==
    CASE b.cls = "Cower" -> CowerOutput(oc)
      [] b.cls = "Eopkg" -> EopkgOutput(oc)
      [] OTHER           -> UpdateOutput(oc)

DropHeaderKept(lines) == lines

(* splitlines()[1:] *)
DropHeader(lines) == SliceFrom(lines, 1)

(* [x for x in lines if x][4:] *)
ZypperRows(lines) ==
    LET nonblank(x) == x # <<>>
    IN  SliceFrom(SelectSeq(lines, nonblank), 4)

(* count_updates of the backend's class, given get_command_output's text *)
count_lines(b, text) ==
    CASE b.cls \in {"Apt", "Apk"} -> Len(DropHeader(splitlines(text)))
      [] b.cls = "Zypper"         -> Len(ZypperRows(splitlines(text)))
      [] OTHER                    -> Len(splitlines(text))

EmptyDict == [n \in {} |-> 0]

(* get_updates: {self.name: self.count_updates()}, or the CommandError    *)
(* that get_command_output let through                                    *)
get_updates(b, oc) ==
    LET t == get_command_output(b, oc)
    IN  IF t.failed
        THEN [failed |-> TRUE, text |-> <<>>, count |-> 0, data |-> EmptyDict]
        ELSE [failed |-> FALSE, text |-> t.text,
              count |-> count_lines(b, t.text),
              data |-> [n \in {b.name} |-> count_lines(b, t.text)]]

(* dict.update *)
DictUpdate(d, u) ==
    [k \in DOMAIN d \cup DOMAIN u |-> IF k \in DOMAIN u THEN u[k] ELSE d[k]]

(* lines 167-169: the loop over self.backends, left at the first error *)
RECURSIVE Collect(_, _, _)
Collect(bs, ocs, data) ==
    IF bs = <<>> THEN [failed |-> FALSE, data |-> data]
    ELSE LET u == get_updates(Head(bs), ocs[Head(bs).name])
         IN  IF u.failed THEN [failed |-> TRUE, data |-> data]
             ELSE Collect(Tail(bs), ocs, DictUpdate(data, u.data))

ThresholdCallsAll(names, data) ==
    [i \in 1..Len(names) |->
        [value |-> IF names[i] \in DOMAIN data THEN data[names[i]] ELSE 0,
         name |-> names[i]]]

(* lines 171-173: the threshold_get_color(update_data[x], x) calls *)
ThresholdCalls(names, data) ==
    LET known(x) == x \in DOMAIN data
        xs == SelectSeq(names, known)
    IN  [i \in 1..Len(xs) |-> [value |-> data[xs[i]], name |-> xs[i]]]

(* what the commands of a poll may do *)
PollOutputs == { <<>>, Phrase \o <<NL>>, ZypperListing }

(* a five-line payload *)
FiveLines == << "x", NL, "x", NL, "x", NL, "x", NL, "x", NL >>

Outcomes ==
    [ok : {TRUE}, output : PollOutputs] \cup
    [ok : {FALSE}, output : {ZypperListing}]

NoReport == [name |-> "", cls |-> "", failed |-> FALSE, text |-> <<>>,
             count |-> 0]

(* post_config_hook, lines 131-164 *)
PostConfigHook ==
    /\ ~hooked
    /\ LET binaries == IF format.is_none THEN ProbeBinaries ELSE <<>>
           fmt == IF format.is_none THEN AutoFormat(binaries) ELSE format
       IN  /\ format' = fmt
           /\ backends' = BuildBackends(get_placeholders_list(fmt), binaries)
           /\ thresholds_init' = get_color_names_list(fmt)
    /\ hooked' = TRUE
    /\ UNCHANGED <<installed, npolls, outcomes, failed, update_data, colors,
                   prev_positive>>
    /\ UNCHANGED <<pewVars, parseVars>>

(* updates(), lines 166-178, with the commands doing ocs *)
Updates(ocs) ==
    /\ hooked
    /\ npolls < MaxPolls
    /\ \E r \in {Collect(backends, ocs, EmptyDict)} :
           /\ failed' = r.failed
           /\ update_data' = r.data
           /\ colors' = IF r.failed THEN <<>>
                        ELSE ThresholdCalls(thresholds_init, r.data)
    /\ outcomes' = ocs
    /\ prev_positive' =
          (~failed /\ \E n \in DOMAIN update_data : update_data[n] > 0)
    /\ npolls' = npolls + 1
    /\ UNCHANGED <<installed, format, hooked, backends, thresholds_init>>
    /\ UNCHANGED <<pewVars, parseVars>>

(* one backend, built as post_config_hook builds it, asked for its count *)
Query(m) ==
    /\ LET b == Backend(m)
           u == get_updates(b, outcome)
       IN  report' = [name |-> b.name, cls |-> b.cls, failed |-> u.failed,
                      text |-> u.text, count |-> u.count]
    /\ UNCHANGED outcome
    /\ UNCHANGED <<pewVars, updVars>>

BackendNames == { backends[i].name : i \in 1..Len(backends) }

----------------------------------------------------------------------------
(* post_config_hook: _hide_notification(), then start the daemon thread.   *)
(* No other thread exists yet, so the three stores are one step.           *)
PewPostConfigHook ==
    /\ ~started
    /\ body' = None /\ summary' = None /\ urgent' = FALSE
    /\ started' = TRUE
    /\ UNCHANGED <<wpc, queue, cur, slept, nstarted, nreturned, update_calls,
                   rpc, rd, result, returned>>
    /\ UNCHANGED <<updVars, parseVars>>

(* The bus delivers a Notify message matching PARAM_STRING to the          *)
(* connection opened by _start_loop.                                       *)
Notify(msg) ==
    /\ started
    /\ nstarted + Len(queue) < MaxNotifs
    /\ queue' = Append(queue, msg)
    /\ UNCHANGED <<body, summary, urgent, started, wpc, cur, slept, nstarted,
                   nreturned, update_calls, rpc, rd, result, returned>>
    /\ UNCHANGED <<updVars, parseVars>>

InMainLoopReentrant == wpc \in {"idle", "l77"}

(* mainloop.run() calls the message filter only from the loop itself: the  *)
(* watcher thread must be back in the loop, not inside a handler.          *)
InMainLoop == wpc = "idle"

(* The main loop calls _show_notification(bus, notification); line 71.     *)
Dispatch ==
    /\ started /\ InMainLoop
    /\ queue # <<>>
    /\ cur' = FormatArgs(Head(queue))
    /\ queue' = Tail(queue)
    /\ nstarted' = nstarted + 1
    /\ wpc' = "l72"
    /\ UNCHANGED <<body, summary, urgent, started, slept, nreturned, update_calls,
                   rpc, rd, result, returned>>
    /\ UNCHANGED <<updVars, parseVars>>

(* line 72: self.body = " ".join(notification[4].split("\n")) *)
ShowBody ==
    /\ wpc = "l72"
    /\ body' = OneLine(cur, 4)
    /\ wpc' = "l73"
    /\ UNCHANGED <<summary, urgent, started, queue, cur, slept, nstarted,
                   nreturned, update_calls, rpc, rd, result, returned>>
    /\ UNCHANGED <<updVars, parseVars>>

(* line 73: self.summary = " ".join(notification[3].split("\n")) *)
ShowSummary ==
    /\ wpc = "l73"
    /\ summary' = OneLine(cur, 3)
    /\ wpc' = "l74"
    /\ UNCHANGED <<body, urgent, started, queue, cur, slept, nstarted,
                   nreturned, update_calls, rpc, rd, result, returned>>
    /\ UNCHANGED <<updVars, parseVars>>

(* line 74: self.urgent = True *)
ShowUrgent ==
    /\ wpc = "l74"
    /\ urgent' = TRUE
    /\ wpc' = "l75"
    /\ UNCHANGED <<body, summary, started, queue, cur, slept, nstarted,
                   nreturned, update_calls, rpc, rd, result, returned>>
    /\ UNCHANGED <<updVars, parseVars>>

(* line 75: self.py3.update(); then sleep(self.timeout) begins *)
ShowUpdate ==
    /\ wpc = "l75"
    /\ update_calls' = Append(update_calls, "show")
    /\ slept' = 0
    /\ wpc' = "l77"
    /\ UNCHANGED <<body, summary, urgent, started, queue, cur, nstarted,
                   nreturned, rpc, rd, result, returned>>
    /\ UNCHANGED <<updVars, parseVars>>

(* line 77: one time unit of sleep(self.timeout) passes *)
SleepTick ==
    /\ wpc = "l77"
    /\ slept < timeout
    /\ slept' = slept + 1
    /\ UNCHANGED <<body, summary, urgent, started, wpc, queue, cur, nstarted,
                   nreturned, update_calls, rpc, rd, result, returned>>
    /\ UNCHANGED <<updVars, parseVars>>

(* line 78, _hide_notification line 68: the tuple assignment stores        *)
(* self.body, then self.summary, then self.urgent, one store each.         *)
HideBody ==
    /\ wpc = "l77"
    /\ slept = timeout
    /\ body' = None
    /\ wpc' = "l68s"
    /\ UNCHANGED <<summary, urgent, started, queue, cur, slept, nstarted,
                   nreturned, update_calls, rpc, rd, result, returned>>
    /\ UNCHANGED <<updVars, parseVars>>

HideSummary ==
    /\ wpc = "l68s"
    /\ summary' = None
    /\ wpc' = "l68u"
    /\ UNCHANGED <<body, urgent, started, queue, cur, slept, nstarted,
                   nreturned, update_calls, rpc, rd, result, returned>>
    /\ UNCHANGED <<updVars, parseVars>>

HideUrgent ==
    /\ wpc = "l68u"
    /\ urgent' = FALSE
    /\ wpc' = "l79"
    /\ UNCHANGED <<body, summary, started, queue, cur, slept, nstarted,
                   nreturned, update_calls, rpc, rd, result, returned>>
    /\ UNCHANGED <<updVars, parseVars>>

(* line 79: self.py3.update(); the handler returns to the main loop *)
HideUpdate ==
    /\ wpc = "l79"
    /\ update_calls' = Append(update_calls, "clear")
    /\ nreturned' = nreturned + 1
    /\ wpc' = "idle"
    /\ UNCHANGED <<body, summary, urgent, started, queue, cur, slept,
                   nstarted, rpc, rd, result, returned>>
    /\ UNCHANGED <<updVars, parseVars>>

(* pew() on the host thread.  The dict display evaluates "urgent" first    *)
(* (line 83), then the arguments of safe_format: self.body, self.summary   *)
(* (line 86).  Each attribute load is its own step.                        *)
PewReadUrgent ==
    /\ started /\ rpc = "idle"
    /\ rd' = [urgent |-> urgent, body |-> None]
    /\ rpc' = "l86b"
    /\ UNCHANGED <<body, summary, urgent, started, wpc, queue, cur, slept,
                   nstarted, nreturned, update_calls, result, returned>>
    /\ UNCHANGED <<updVars, parseVars>>

PewReadBody ==
    /\ rpc = "l86b"
    /\ rd' = [rd EXCEPT !.body = body]
    /\ rpc' = "l86s"
    /\ UNCHANGED <<body, summary, urgent, started, wpc, queue, cur, slept,
                   nstarted, nreturned, update_calls, result, returned>>
    /\ UNCHANGED <<updVars, parseVars>>

(* loads self.summary and returns; full_text is safe_format applied to     *)
(* the body and summary read, kept here as the pair itself.                *)
PewReadSummary ==
    /\ rpc = "l86s"
    /\ result' = [urgent |-> rd.urgent, body |-> rd.body, summary |-> summary]
    /\ returned' = TRUE
    /\ rd' = [urgent |-> FALSE, body |-> None]
    /\ rpc' = "idle"
    /\ UNCHANGED <<body, summary, urgent, started, wpc, queue, cur, slept,
                   nstarted, nreturned, update_calls>>
    /\ UNCHANGED <<updVars, parseVars>>

WatcherStep ==
    \/ Dispatch \/ ShowBody \/ ShowSummary \/ ShowUrgent \/ ShowUpdate
    \/ SleepTick \/ HideBody \/ HideSummary \/ HideUrgent \/ HideUpdate

----------------------------------------------------------------------------
(* Specifications *)

(* pew.py after construction: the instance attributes body, summary and    *)
(* urgent do not exist until post_config_hook creates them.                *)
PewNew ==
    /\ body = None /\ summary = None /\ urgent = FALSE
    /\ started = FALSE
    /\ wpc = "idle"
    /\ queue = <<>>
    /\ cur = ArgsList(<<>>, <<>>)
    /\ slept = 0
    /\ nstarted = 0 /\ nreturned = 0
    /\ update_calls = <<>>
    /\ rpc = "idle"
    /\ rd = [urgent |-> FALSE, body |-> None]
    /\ result = [urgent |-> FALSE, body |-> None, summary |-> None]
    /\ returned = FALSE

(* updates.py after construction, format unset, nothing installed *)
UpdNew ==
    /\ installed = {} /\ format = NoFormat /\ hooked = FALSE
    /\ backends = <<>> /\ thresholds_init = <<>> /\ npolls = 0
    /\ outcomes = EmptyDict /\ failed = FALSE /\ update_data = EmptyDict
    /\ colors = <<>> /\ prev_positive = FALSE

ParseNew ==
    /\ outcome = [ok |-> TRUE, output |-> <<>>]
    /\ report = NoReport

InitPew == PewNew /\ UpdNew /\ ParseNew

NextPew ==
    \/ PewPostConfigHook
    \/ \E msg \in Messages : Notify(msg)
    \/ Dispatch \/ ShowBody \/ ShowSummary \/ ShowUrgent \/ ShowUpdate
    \/ SleepTick \/ HideBody \/ HideSummary \/ HideUrgent \/ HideUpdate
    \/ PewReadUrgent \/ PewReadBody \/ PewReadSummary

SpecPew == InitPew /\ [][NextPew]_vars

(* The watcher thread keeps running: a handler that can take a step does.  *)
FairSpecPew == SpecPew /\ WF_vars(WatcherStep)

(* updates.py after construction, on a system with some binaries           *)
(* installed and some format configured                                    *)
InitUpdates ==
    /\ installed \in { S \in SUBSET Binaries : Cardinality(S) <= MaxInstalled }
    /\ format \in Formats
    /\ hooked = FALSE
    /\ backends = <<>> /\ thresholds_init = <<>> /\ npolls = 0
    /\ outcomes = EmptyDict /\ failed = FALSE /\ update_data = EmptyDict
    /\ colors = <<>> /\ prev_positive = FALSE
    /\ PewNew /\ ParseNew

NextUpdates ==
    \/ PostConfigHook
    \/ \E ocs \in [BackendNames -> Outcomes] : Updates(ocs)

SpecUpdates == InitUpdates /\ [][NextUpdates]_vars

(* the command outputs and exit statuses the backends are tried on *)
ParseOutputs ==
    Strings(MaxLen) \cup { Phrase, Phrase \o <<NL>>, ZypperListing, FiveLines }

InitParse ==
    /\ outcome \in [ok : BOOLEAN, output : ParseOutputs]
    /\ report = NoReport
    /\ PewNew /\ UpdNew

NextParse == \E i \in 1..Len(managers) : Query(managers[i])

SpecParse == InitParse /\ [][NextParse]_vars

----------------------------------------------------------------------------
(* Notification watcher: properties *)

IsEmpty(text) == text = None \/ text = <<>>

Cleared == body = None /\ summary = None /\ urgent = FALSE

InHandler == nstarted - nreturned

(* every newline of the text replaced by one space *)
NewlinesToSpaces(text) ==
    [i \in 1..Len(text) |-> IF text[i] = NL THEN SP ELSE text[i]]

(* C1: after startup, in every state, urgent is true if and only if        *)
(* summary or body is non-empty.                                           *)
C1_UrgentIffText ==
    started => (urgent <=> ~(IsEmpty(summary) /\ IsEmpty(body)))

(* C2: what pew() returns is a consistent snapshot: never urgent with both *)
(* text fields empty, never not urgent with a non-empty text field.        *)
C2_RenderSnapshot ==
    returned =>
        (result.urgent <=> ~(IsEmpty(result.summary) /\ IsEmpty(result.body)))

(* C3: notifications are handled strictly one at a time.  At most one      *)
(* handler invocation is in progress; a handler starts only from the       *)
(* cleared state, after the previous handler slept its full timeout,       *)
(* requested its clearing re-render and returned; while a notification     *)
(* waits on the bus the text on display is that of the handler's own       *)
(* notification or nothing.                                                *)
C3_OneAtATime ==
    /\ InHandler \in {0, 1}
    /\ (InHandler = 1) <=> (wpc # "idle")
    /\ wpc = "l72" =>
          /\ Cleared
          /\ nstarted > 1 =>
                /\ slept = timeout
                /\ Len(update_calls) = 2 * (nstarted - 1)
                /\ update_calls[Len(update_calls)] = "clear"
    /\ started /\ wpc # "idle" =>
          /\ body \in {None, NewlinesToSpaces(cur[5])}
          /\ summary \in {None, NewlinesToSpaces(cur[4])}

(* a second notification waits on the bus while the first is on display,   *)
(* in the middle of its sleep                                              *)
C3_Witness ==
    /\ wpc = "l77" /\ slept > 0 /\ slept < timeout
    /\ Len(queue) >= 1
    /\ urgent /\ body = NewlinesToSpaces(cur[5])

(* the re-render requests alternate show, clear, show, ... *)
UpdatesAlternate ==
    \A i \in 1..Len(update_calls) :
        update_calls[i] = (IF i % 2 = 1 THEN "show" ELSE "clear")

(* during the whole sleep the state is the notification shown *)
ShownDuringSleep ==
    wpc = "l77" =>
        /\ body = NewlinesToSpaces(cur[5])
        /\ summary = NewlinesToSpaces(cur[4])
        /\ urgent = TRUE
        /\ Len(update_calls) = 2 * nstarted - 1
        /\ update_calls[Len(update_calls)] = "show"

(* once the handler has returned the state is cleared *)
ClearedAfterReturn ==
    (started /\ wpc = "idle") =>
        /\ Cleared
        /\ Len(update_calls) = 2 * nreturned

(* C4: for every notification handled, the state is set to the             *)
(* newline-normalized summary and body with urgent true and a re-render is *)
(* requested; no other write happens until the timeout has elapsed; then   *)
(* the state is eventually cleared and a second re-render requested, the   *)
(* show request always preceding the clear request.                        *)
C4_ShowThenClear ==
    /\ [](ShownDuringSleep /\ ClearedAfterReturn /\ UpdatesAlternate)
    /\ [][wpc = "l77" /\ slept < timeout
            => UNCHANGED <<body, summary, urgent, update_calls>>]_vars
    /\ \A k \in 1..(MaxNotifs + 1) :
          (wpc = "l77" /\ nstarted = k)
             ~> (wpc = "idle" /\ nreturned = k /\ Cleared
                 /\ Len(update_calls) = 2 * k /\ update_calls[2 * k] = "clear")

(* a notification with a newline in its body has been shown and cleared *)
C4_Witness ==
    /\ wpc = "idle" /\ nreturned = 1
    /\ cur[5] = <<"a", NL, "b">>
    /\ update_calls = <<"show", "clear">>
    /\ Cleared

----------------------------------------------------------------------------
(* Update aggregator: properties *)

EndsLine(s, i) ==
    \/ s[i] = NL
    \/ s[i] = CR /\ ~(i < Len(s) /\ s[i+1] = NL)

(* the number of lines of a text: its line ends, and one more when        *)
(* characters follow the last line end                                    *)
NumLines(s) ==
    Cardinality({ i \in 1..Len(s) : EndsLine(s, i) })
      + (IF s # <<>> /\ s[Len(s)] \notin {NL, CR} THEN 1 ELSE 0)

(* the number of lines that hold at least one character *)
NumNonBlankLines(s) ==
    Cardinality({ i \in 1..Len(s) :
                    /\ s[i] \notin {NL, CR}
                    /\ (i = 1 \/ s[i-1] \in {NL, CR}) })

AtLeastZero(n) == IF n < 0 THEN 0 ELSE n

(* the output a backend works on: the command's output on exit status 0   *)
(* and nothing otherwise; for cower the other way round                   *)
Effective(name, oc) ==
    IF name = "cower" THEN (IF oc.ok THEN <<>> ELSE oc.output)
    ELSE (IF oc.ok THEN oc.output ELSE <<>>)

(* the parse-rule table *)
ExpectedCount(name, oc) ==
    LET eff == Effective(name, oc)
    IN  CASE name \in {"apt", "apk"} -> AtLeastZero(NumLines(eff) - 1)
          [] name = "eopkg" ->
                IF Contains(Phrase, eff) THEN 0 ELSE NumLines(eff)
          [] name = "zypper" -> AtLeastZero(NumNonBlankLines(eff) - 4)
          [] OTHER -> NumLines(eff)

(* C5: a poll in which the command of an active backend other than cower  *)
(* exits non-zero still completes, counts that backend as zero and holds  *)
(* every active backend's count.                                          *)
C5_FaultIsolated ==
    npolls > 0 =>
        \A n \in BackendNames \ {"cower"} :
            ~outcomes[n].ok =>
                /\ ~failed
                /\ DOMAIN update_data = BackendNames
                /\ update_data[n] = 0

(* C6: pkg is never an active backend and no poll reports a pkg count. *)
C6_PkgNeverActive ==
    /\ hooked => "pkg" \notin BackendNames
    /\ npolls > 0 => "pkg" \notin DOMAIN update_data

(* the registry names that are placeholders of the template and whose     *)
(* binary is installed, in registry order                                 *)
ExpectedActive ==
    LET wanted(m) == m.name \in format.placeholders
                     /\ m.command[1] \in installed
        ms == SelectSeq(managers, wanted)
    IN  [i \in 1..Len(ms) |-> ms[i].name]

(* C7: once post_config_hook has run, and after any polls, the active     *)
(* backends are exactly the registry names that are placeholders of the   *)
(* template and have their binary present, in registry order, each once.  *)
C7_ActiveBackends ==
    hooked =>
        /\ [i \in 1..Len(backends) |-> backends[i].name] = ExpectedActive
        /\ \A i, j \in 1..Len(backends) :
              i # j => backends[i].name # backends[j].name

(* two backends active, and a poll that failed has not changed them *)
C7_Witness ==
    /\ hooked /\ npolls = MaxPolls /\ failed
    /\ Len(backends) = 2
    /\ format.placeholders # BackendNames

(* C8: the mapping of a completed poll is built from that poll alone: its *)
(* keys are exactly the active backend names, each count is the one the   *)
(* parse rule gives for that poll's command outcome, and                  *)
(* threshold_get_color is called, in order, for exactly the recorded      *)
(* colour names that are keys of the mapping, with that poll's count.     *)
C8_RebuiltEachPoll ==
    (npolls > 0 /\ ~failed) =>
        /\ DOMAIN update_data = BackendNames
        /\ \A n \in BackendNames :
              update_data[n] = ExpectedCount(n, outcomes[n])
        /\ Len(colors) = Cardinality({ i \in 1..Len(thresholds_init) :
                                          thresholds_init[i] \in BackendNames })
        /\ \A i \in 1..Len(colors) :
              /\ colors[i].name \in BackendNames
              /\ colors[i].value = update_data[colors[i].name]
        /\ \A i \in 1..Len(thresholds_init) :
              thresholds_init[i] \in BackendNames
                 => \E j \in 1..Len(colors) : colors[j].name = thresholds_init[i]
        /\ \A i, j \in 1..Len(colors) :
              i < j => \E a, b \in 1..Len(thresholds_init) :
                          /\ a < b
                          /\ thresholds_init[a] = colors[i].name
                          /\ thresholds_init[b] = colors[j].name

(* a poll that returned positive counts is followed by a completed poll   *)
(* of two backends in which every count is zero, with a colour name that  *)
(* has no count                                                           *)
C8_Witness ==
    /\ npolls >= 2 /\ ~failed
    /\ prev_positive
    /\ Len(backends) = 2
    /\ \A n \in BackendNames : update_data[n] = 0
    /\ Len(colors) > 0 /\ Len(colors) < Len(thresholds_init)

(* C9: the generic parser counts the lines of the command's output, the   *)
(* apt and apk parsers count the lines after the first, and no parser     *)
(* returns a negative count or raises on empty output.                    *)
C9_LineCounts ==
    report.name # "" =>
        /\ report.cls = "Update" =>
              /\ ~report.failed
              /\ report.count = NumLines(Effective(report.name, outcome))
        /\ report.cls \in {"Apt", "Apk"} =>
              /\ ~report.failed
              /\ report.count
                   = AtLeastZero(NumLines(Effective(report.name, outcome)) - 1)
        /\ report.count >= 0
        /\ (outcome.ok /\ outcome.output = <<>>) =>
              (~report.failed /\ report.count = 0)

(* apt on a header-only output: one line, no update *)
C9_Witness ==
    /\ report.name = "apt" /\ report.cls = "Apt"
    /\ outcome.ok /\ outcome.output = <<"x", NL>>
    /\ report.count = 0

(* C10: cower inverts the exit status: on a non-zero exit its count is    *)
(* the number of lines of the payload the failure carries, on a zero exit *)
(* it is 0 whatever was printed.                                          *)
C10_CowerInverted ==
    report.name = "cower" =>
        /\ ~report.failed
        /\ outcome.ok => report.count = 0
        /\ ~outcome.ok => report.count = NumLines(outcome.output)

(* cower exits non-zero with a five-line payload: count 5 *)
C10_Witness ==
    /\ report.name = "cower"
    /\ ~outcome.ok /\ outcome.output = FiveLines
    /\ report.count = 5

====
